---- MODULE Spec2Model ----
(***************************************************************************)
(* A model of cli::Parser (src/cmdparser.hpp): the registry of parameter   *)
(* descriptors, the registration calls, disable_help / enable_help, and    *)
(* run(): tokenization followed by the dominant pass, the required check   *)
(* and the normal pass.                                                    *)
(*                                                                         *)
(* Strings are sequences of one-character strings, so that the checks the  *)
(* code makes on characters (currArg[0] == '-', "-" + name, std::stoi) are *)
(* computed and not assumed.                                               *)
(***************************************************************************)
EXTENDS Integers, Sequences, FiniteSets, TLC

VARIABLES
    _arguments,   \* std::vector<std::string> _arguments
    _commands,    \* std::vector<CmdBase*> _commands (each pointee with its heap id)
    inited,       \* init(argc, argv) has been called
    allocs,       \* number of descriptors allocated with new so far
    freed,        \* heap ids on which delete has been called
    pc,           \* position of the caller / of run()
    i,            \* run(): index of the token under the cursor (1-based)
    current,      \* run(): the cursor `current`, an index into _commands, 0 = nullptr
    k,            \* run(): index of the resolution loops over _commands
    result,       \* outcome of run(): "none", "true", "false", "exception", "crash"
    output,       \* what run() wrote to the output stream
    error,        \* what run() wrote to the error stream
    calls         \* log of the parse / validate calls run() made, in order

vars == <<_arguments, _commands, inited, allocs, freed, pc, i, current, k,
          result, output, error, calls>>

-----------------------------------------------------------------------------
(* Bounds of the model *)

\* longest argument vector drawn from all tokens
MaxArgs == 3
\* most value tokens following one flag in the flag-then-values vectors
MaxValues == 3
\* most descriptors allocated over the life of a parser
MaxCommands == 3

-----------------------------------------------------------------------------
(* Strings *)

Str_f == <<"f">>
Str_flag == <<"f", "l", "a", "g">>
Str_h == <<"h">>
Str_help == <<"h", "e", "l", "p">>
Str_5 == <<"5">>
Str_x == <<"x">>

\* "-" + name
Dash(s) == <<"-">> \o s
\* "--" + alternative
DashDash(s) == <<"-", "-">> \o s

\* the tokens argv is drawn from
Tokens == {Dash(Str_f), DashDash(Str_help), Str_5, Str_x}
\* the tokens among them that carry a value
ValueTokens == {Str_5, Str_x}

SeqsUpTo(S, n) == UNION {[1..m -> S] : m \in 0..n}

\* the argument vectors a parser is constructed with (argv minus argv[0])
ArgVectors ==
    SeqsUpTo(Tokens, MaxArgs)
    \cup {<<Dash(Str_f)>> \o vs : vs \in SeqsUpTo(ValueTokens, MaxValues)}

-----------------------------------------------------------------------------
(* Typed values: the T of CmdArgument<T> / CmdFunction<T>.  A value is a    *)
(* record of one shape for every T; `init` is FALSE for a member that was   *)
(* default-initialized with an indeterminate value (T value; of int, bool). *)

IntVal(n) == [t |-> "int", init |-> TRUE, n |-> n, b |-> FALSE, s |-> <<>>, v |-> <<>>]
BoolVal(b) == [t |-> "bool", init |-> TRUE, n |-> 0, b |-> b, s |-> <<>>, v |-> <<>>]
StrVal(s) == [t |-> "string", init |-> TRUE, n |-> 0, b |-> FALSE, s |-> s, v |-> <<>>]
\* std::vector<E>: T is "vector<int>" or "vector<string>"
VecVal(T, items) == [t |-> T, init |-> TRUE, n |-> 0, b |-> FALSE, s |-> <<>>, v |-> items]

ElemType(T) == IF T = "vector<int>" THEN "int" ELSE "string"
IsVector(T) == T \in {"vector<int>", "vector<string>"}

\* T value; with no initializer
DefaultInitialized(T) ==
    CASE T = "int" -> [IntVal(0) EXCEPT !.init = FALSE]
      [] T = "bool" -> [BoolVal(FALSE) EXCEPT !.init = FALSE]
      [] T = "string" -> StrVal(<<>>)
      [] OTHER -> VecVal(T, <<>>)

\* ArgumentCountChecker<T>::Variadic
Variadic(T) == IsVector(T)

-----------------------------------------------------------------------------
(* Value conversion layer: std::stoi and the Parser::parse overloads *)

INT_MAX == 2147483647

Digits == <<"0", "1", "2", "3", "4", "5", "6", "7", "8", "9">>
Lower == <<"a", "b", "c", "d", "e", "f", "g", "h", "i", "j", "k", "l", "m",
           "n", "o", "p", "q", "r", "s", "t", "u", "v", "w", "x", "y", "z">>
Upper == <<"A", "B", "C", "D", "E", "F", "G", "H", "I", "J", "K", "L", "M",
           "N", "O", "P", "Q", "R", "S", "T", "U", "V", "W", "X", "Y", "Z">>
\* no digit of any base (bases end at 36)
NoDigit == Len(Digits) + Len(Lower)

IndexOf(seq, c) == IF \E j \in 1..Len(seq) : seq[j] = c
                   THEN CHOOSE j \in 1..Len(seq) : seq[j] = c
                   ELSE 0

\* value of a character as a digit of strtol (NoDigit when it is none)
DigitValue(c) ==
    IF IndexOf(Digits, c) # 0 THEN IndexOf(Digits, c) - 1
    ELSE IF IndexOf(Lower, c) # 0 THEN 9 + IndexOf(Lower, c)
    ELSE IF IndexOf(Upper, c) # 0 THEN 9 + IndexOf(Upper, c)
    ELSE NoDigit

IsSpace(c) == c \in {" ", "\t", "\n", "\r"}

RECURSIVE SkipSpace(_)
SkipSpace(s) == IF s # <<>> /\ IsSpace(Head(s)) THEN SkipSpace(Tail(s)) ELSE s

\* the digits strtol consumes: acc.n of them, of value acc.v
RECURSIVE ScanDigits(_, _, _)
ScanDigits(s, base, acc) ==
    IF s = <<>> \/ DigitValue(Head(s)) >= base THEN acc
    ELSE ScanDigits(Tail(s), base,
                    [n |-> acc.n + 1, v |-> acc.v * base + DigitValue(Head(s))])

Thrown(what) == [ok |-> FALSE, what |-> what, val |-> IntVal(0)]
Returned(val) == [ok |-> TRUE, what |-> "", val |-> val]

\* std::stoi(str, 0, base): leading space, a sign, a base prefix, digits; the
\* characters after the last digit are ignored
stoi(str, base) ==
    LET s0 == SkipSpace(str)
        neg == s0 # <<>> /\ Head(s0) = "-"
        s1 == IF s0 # <<>> /\ Head(s0) \in {"-", "+"} THEN Tail(s0) ELSE s0
        hex == /\ base \in {0, 16}
               /\ Len(s1) >= 3
               /\ s1[1] = "0"
               /\ s1[2] \in {"x", "X"}
               /\ DigitValue(s1[3]) < 16
        b == IF base # 0 THEN base
             ELSE IF hex THEN 16
             ELSE IF s1 # <<>> /\ s1[1] = "0" THEN 8
             ELSE 10
        s2 == IF hex THEN SubSeq(s1, 3, Len(s1)) ELSE s1
        r == ScanDigits(s2, b, [n |-> 0, v |-> 0])
        val == IF neg THEN 0 - r.v ELSE r.v
    IN  IF r.n = 0 THEN Thrown("invalid_argument")
        ELSE IF val > INT_MAX \/ val < 0 - INT_MAX - 1 THEN Thrown("out_of_range")
        ELSE Returned(IntVal(val))

\* static int parse(elements, const int&, int numberBase = 0)
parse_int(elements, numberBase) ==
    IF Len(elements) # 1 THEN Thrown("bad_cast")
    ELSE stoi(elements[1], numberBase)

\* static bool parse(elements, const bool& defval)
parse_bool(elements, defval) ==
    IF Len(elements) # 0 THEN Thrown("runtime_error")
    ELSE Returned(BoolVal(~defval))

\* static std::string parse(elements, const std::string&)
parse_string(elements) ==
    IF Len(elements) # 1 THEN Thrown("bad_cast")
    ELSE Returned(StrVal(elements[1]))

\* the scalar overload chosen for an element of type E
parse_scalar(E, elements) ==
    IF E = "int" THEN parse_int(elements, 0) ELSE parse_string(elements)

\* parse of a vector with values.insert(values.begin(), ...) for push_back
RECURSIVE parse_vector_reversed(_, _, _)
parse_vector_reversed(T, elements, values) ==
    IF elements = <<>> THEN [ok |-> TRUE, what |-> "", val |-> VecVal(T, values)]
    ELSE LET r == parse_scalar(ElemType(T), <<Head(elements)>>)
         IN  IF ~r.ok THEN r
             ELSE parse_vector_reversed(T, Tail(elements), <<r.val>> \o values)

\* static std::vector<T> parse(elements, const std::vector<T>&): every element
\* alone through the scalar overload, in order; the first throw ends it
RECURSIVE parse_vector(_, _, _)
parse_vector(T, elements, values) ==
    IF elements = <<>> THEN Returned(VecVal(T, values))
    ELSE LET r == parse_scalar(ElemType(T), <<Head(elements)>>)
         IN  IF ~r.ok THEN r
             ELSE parse_vector(T, Tail(elements), Append(values, r.val))

\* Parser::parse(arguments, value) as overload resolution picks it for T;
\* defval is what reading `value` gives (only the bool overload reads it)
parse(T, elements, defval) ==
    CASE T = "int" -> parse_int(elements, 0)
      [] T = "bool" -> parse_bool(elements, defval)
      [] T = "string" -> parse_string(elements)
      [] OTHER -> parse_vector(T, elements, <<>>)

-----------------------------------------------------------------------------
(* Parameter descriptors: CmdBase and its two subclasses *)

\* CmdBase::CmdBase: command is "-" + name, alternative is "--" + alternative,
\* each empty when its argument is empty; handled(false), arguments({})
CmdBase(name, alternative, required, dominant, variadic) ==
    [name |-> name,
     command |-> IF Len(name) > 0 THEN Dash(name) ELSE <<>>,
     alternative |-> IF Len(alternative) > 0 THEN DashDash(alternative) ELSE <<>>,
     required |-> required,
     handled |-> FALSE,
     arguments |-> <<>>,
     dominant |-> dominant,
     variadic |-> variadic]

\* the fields a heap-allocated descriptor has besides those of CmdBase
Derived(id, class, T, value, valFun, callback) ==
    [id |-> id, class |-> class, T |-> T, value |-> value,
     valFun |-> valFun, callback |-> callback]

Merge(f, g) == [x \in (DOMAIN f) \cup (DOMAIN g) |->
                   IF x \in DOMAIN f THEN f[x] ELSE g[x]]

\* new CmdArgument<T> { name, alternative, description, required, dominant, vf }
CmdArgument(id, T, name, alternative, required, dominant, vf) ==
    Merge(CmdBase(name, alternative, required, dominant, Variadic(T)),
          Derived(id, "CmdArgument", T, DefaultInitialized(T), vf, "none"))

\* new CmdFunction<T> { name, alternative, description, required, dominant }
CmdFunction(id, T, name, alternative, required, dominant) ==
    Merge(CmdBase(name, alternative, required, dominant, Variadic(T)),
          Derived(id, "CmdFunction", T, DefaultInitialized(T), "nullptr", "none"))

\* CmdBase::is
is(cmd, given) == given = cmd.command \/ given = cmd.alternative

-----------------------------------------------------------------------------
(* Registry lookups *)

\* least of the matching registry positions, 0 (nullptr / end()) when there is none
FirstIndex(matching) ==
    IF matching = {} THEN 0
    ELSE CHOOSE j \in matching : \A m \in matching : j <= m

\* Parser::find
find(cmds, name) == FirstIndex({j \in 1..Len(cmds) : is(cmds[j], name)})

\* Parser::find_default
find_default(cmds) == FirstIndex({j \in 1..Len(cmds) : cmds[j].name = <<>>})

\* Parser::is_default
is_default(cmd) == cmd.command = <<>> /\ cmd.alternative = <<>>

IsHelp(c) == c.name = Str_h /\ c.alternative = DashDash(Str_help)

\* Parser::has_help
has_help(cmds) == \E j \in 1..Len(cmds) : IsHelp(cmds[j])

\* Parser::commands
commands(cmds) == Len(cmds)

\* Parser::requirements
requirements(cmds) == Cardinality({j \in 1..Len(cmds) : cmds[j].required})

\* the descriptor get<T>(name) looks at: the first one of that name
get_index(cmds, name) == FirstIndex({j \in 1..Len(cmds) : cmds[j].name = name})

\* Parser::get with a static_cast for the dynamic_cast: no type test
get_unchecked(cmds, T, name) ==
    IF get_index(cmds, name) = 0 THEN Thrown("could not be found")
    ELSE Returned(cmds[get_index(cmds, name)].value)

\* T Parser::get<T>(name): the value, or the runtime_error thrown; the
\* dynamic_cast succeeds on a CmdArgument<T> of that very T only
get(cmds, T, name) ==
    IF get_index(cmds, name) = 0 THEN Thrown("could not be found")
    ELSE IF \/ cmds[get_index(cmds, name)].class # "CmdArgument"
            \/ cmds[get_index(cmds, name)].T # T
    THEN Thrown("Invalid usage")
    ELSE Returned(cmds[get_index(cmds, name)].value)

\* T Parser::get_default<T>()
get_default(cmds, T) == get(cmds, T, <<>>)

-----------------------------------------------------------------------------
(* What run() writes to its streams: one record for each piece of text *)

Msg(kind, arg) == [kind |-> kind, arg |-> arg]

\* Parser::print_help
print_help(cmds) == IF has_help(cmds) THEN <<Msg("For more help use --help or -h.", <<>>)>>
                    ELSE <<>>

\* Parser::invalid_parameter
invalid_parameter(cmds, param) ==
    <<Msg("ERROR: Invalid parameter", param)>> \o print_help(cmds)

\* Parser::usage: the header, then CmdBase::usage of every descriptor
usage(cmds) ==
    <<Msg("Available parameters:", <<>>)>>
    \o [j \in 1..Len(cmds) |-> Msg("usage", cmds[j].name)]

-----------------------------------------------------------------------------
(* parse and validate of a descriptor.  Each gives the outcome of the call: *)
(* ok (the bool returned), thrown (an exception left the call instead),     *)
(* the descriptor afterwards, and the text written to the two streams.      *)

Outcome(ok, thrown, cmd, out, err) ==
    [ok |-> ok, thrown |-> thrown, cmd |-> cmd, out |-> out, err |-> err]

\* the user-supplied validation hooks registered in this model
ValidationFunctions == {"nullptr", "equals5", "throws"}

\* the user-supplied callbacks registered in this model, and the one of enable_help
Callbacks == {"help", "returns_false", "throws", "throws_int"}

\* what reading a bool member gives: anything when it is indeterminate
ReadBool(value) == IF value.init THEN {value.b} ELSE BOOLEAN

\* CmdArgument<T>::parse with || for && in the test that keeps the default
CmdArgument_parse_keeps_default(cmd, defval) ==
    IF ~cmd.required \/ cmd.arguments = <<>>
    THEN Outcome(TRUE, FALSE, cmd, <<>>, <<>>)
    ELSE IF parse(cmd.T, cmd.arguments, defval).ok
    THEN Outcome(TRUE, FALSE,
                 [cmd EXCEPT !.value = parse(cmd.T, cmd.arguments, defval).val],
                 <<>>, <<>>)
    ELSE Outcome(FALSE, FALSE, cmd, <<>>, <<Msg("ERROR: Parsing command arguments:", cmd.name)>>)

\* CmdArgument<T>::parse without the test of line 204: always converts
CmdArgument_parse_always_converts(cmd, defval) ==
    IF parse(cmd.T, cmd.arguments, defval).ok
    THEN Outcome(TRUE, FALSE,
                 [cmd EXCEPT !.value = parse(cmd.T, cmd.arguments, defval).val],
                 <<>>, <<>>)
    ELSE Outcome(FALSE, FALSE, cmd, <<>>, <<Msg("ERROR: Parsing command arguments:", cmd.name)>>)

\* CmdArgument<T>::parse
CmdArgument_parse(cmd, defval) ==
    IF ~cmd.required /\ cmd.arguments = <<>>
    THEN Outcome(TRUE, FALSE, cmd, <<>>, <<>>)
    ELSE LET r == parse(cmd.T, cmd.arguments, defval)
         IN  IF r.ok
             THEN Outcome(TRUE, FALSE, [cmd EXCEPT !.value = r.val], <<>>, <<>>)
             ELSE Outcome(FALSE, FALSE, cmd, <<>>,
                    <<Msg("ERROR: Parsing command arguments:", cmd.name)>>
                    \o (IF cmd.arguments = <<>>
                        THEN <<Msg("no arguments provided", <<>>)>>
                        ELSE [j \in 1..Len(cmd.arguments) |->
                                 Msg("argument", cmd.arguments[j])])
                    \o <<Msg(r.what, <<>>)>>)

\* CmdFunction<T>::parse: value = callback(args); only a std::exception is caught
CmdFunction_parse(cmd, cmds) ==
    CASE cmd.callback = "help" ->
           Outcome(TRUE, FALSE, [cmd EXCEPT !.value = BoolVal(FALSE)], usage(cmds), <<>>)
      [] cmd.callback = "returns_false" ->
           Outcome(TRUE, FALSE, [cmd EXCEPT !.value = BoolVal(FALSE)], <<>>, <<>>)
      [] cmd.callback = "throws" ->
           Outcome(FALSE, FALSE, cmd, <<>>,
                   <<Msg("ERROR: Failed parsing function's arguments:", <<>>)>>
                   \o [j \in 1..Len(cmd.arguments) |-> Msg("argument", cmd.arguments[j])]
                   \o <<Msg("runtime_error", <<>>)>>)
      [] OTHER ->
           Outcome(FALSE, TRUE, cmd, <<>>, <<>>)

\* command->parse(output, error): virtual dispatch on the class
Command_parse(cmd, cmds, defval) ==
    IF cmd.class = "CmdArgument" THEN CmdArgument_parse(cmd, defval)
    ELSE CmdFunction_parse(cmd, cmds)

\* the hook "equals5": accepts the value 5 (the string "5") and no other
Equals5(value) ==
    CASE value.t = "int" -> value.n = 5
      [] value.t = "string" -> value.s = Str_5
      [] OTHER -> FALSE

\* CmdArgument<T>::validate
CmdArgument_validate(cmd) ==
    CASE cmd.valFun = "nullptr" -> Outcome(TRUE, FALSE, cmd, <<>>, <<>>)
      [] cmd.valFun = "equals5" -> Outcome(Equals5(cmd.value), FALSE, cmd, <<>>, <<>>)
      [] OTHER -> Outcome(FALSE, TRUE, cmd, <<>>, <<>>)

\* CmdFunction<T>::validate
CmdFunction_validate(cmd) == Outcome(TRUE, FALSE, cmd, <<>>, <<>>)

\* command->validate(output, error)
Command_validate(cmd) ==
    IF cmd.class = "CmdArgument" THEN CmdArgument_validate(cmd)
    ELSE CmdFunction_validate(cmd)

-----------------------------------------------------------------------------
(* Construction *)

\* the descriptor enable_help registers through set_callback
HelpCommand(id) ==
    [CmdFunction(id, "bool", Str_h, Str_help, FALSE, TRUE) EXCEPT !.callback = "help"]

\* Parser(argc, argv) runs init; Parser() registers nothing and has no arguments
Init ==
    /\ \E withArgv \in BOOLEAN :
          /\ inited = withArgv
          /\ IF withArgv
             THEN /\ _arguments \in ArgVectors
                  /\ _commands = <<HelpCommand(1)>>
                  /\ allocs = 1
             ELSE /\ _arguments = <<>>
                  /\ _commands = <<>>
                  /\ allocs = 0
    /\ freed = {}
    /\ pc = "setup"
    /\ i = 1
    /\ current = 0
    /\ k = 1
    /\ result = "none"
    /\ output = <<>>
    /\ error = <<>>
    /\ calls = <<>>

runVars == <<i, current, k, result, output, error, calls>>

-----------------------------------------------------------------------------
(* Registration.  The calls are those of a caller who keeps flags unique:   *)
(* one descriptor named "f" (long flag "flag") and one default at most.     *)

Unused(name) == \A j \in 1..Len(_commands) : _commands[j].name # name

Register(cmd) ==
    /\ pc = "setup"
    /\ allocs < MaxCommands
    /\ _commands' = Append(_commands, cmd)
    /\ allocs' = allocs + 1
    /\ UNCHANGED <<_arguments, inited, freed, pc, runVars>>

\* init without its call of enable_help()
init_without_enable_help ==
    /\ ~inited
    /\ \E argv \in ArgVectors :
          /\ _arguments' = _arguments \o argv
          /\ inited' = TRUE
          /\ pc = "setup"
          /\ UNCHANGED <<_commands, allocs, freed, pc, runVars>>

\* void init(int argc, char** argv), called on a parser made by Parser()
init ==
    /\ ~inited
    /\ \E argv \in ArgVectors :
          /\ _arguments' = _arguments \o argv
          /\ inited' = TRUE
          /\ pc = "setup"
          /\ allocs < MaxCommands
          /\ _commands' = Append(_commands, HelpCommand(allocs + 1))
          /\ allocs' = allocs + 1
          /\ UNCHANGED <<freed, pc, runVars>>

\* void enable_help()
enable_help ==
    /\ inited
    /\ Register(HelpCommand(allocs + 1))

\* set_default<T>(is_required, description, defaultValue, vf)
set_default(T, is_required, defaultValue, vf) ==
    /\ Unused(<<>>)
    /\ Register([CmdArgument(allocs + 1, T, <<>>, <<>>, is_required, FALSE, vf)
                    EXCEPT !.value = defaultValue])

\* set_required<T>(name, alternative, description, vf, dominant)
set_required(T, name, alternative, vf, dominant) ==
    /\ Unused(name)
    /\ Register(CmdArgument(allocs + 1, T, name, alternative, TRUE, dominant, vf))

\* set_optional<T>(name, alternative, defaultValue, description, vf, dominant)
set_optional(T, name, alternative, defaultValue, vf, dominant) ==
    /\ Unused(name)
    /\ Register([CmdArgument(allocs + 1, T, name, alternative, FALSE, dominant, vf)
                    EXCEPT !.value = defaultValue])

\* set_callback<bool>(name, alternative, callback, description, dominant)
set_callback(name, alternative, callback, dominant) ==
    /\ Unused(name)
    /\ Register([CmdFunction(allocs + 1, "bool", name, alternative, FALSE, dominant)
                    EXCEPT !.callback = callback])

\* the calls of set_default made in this model
DefaultCalls ==
    {[T |-> "string", is_required |-> FALSE, defaultValue |-> StrVal(<<>>), vf |-> "nullptr"],
     [T |-> "vector<string>", is_required |-> FALSE,
      defaultValue |-> VecVal("vector<string>", <<>>), vf |-> "nullptr"],
     [T |-> "int", is_required |-> TRUE, defaultValue |-> IntVal(0), vf |-> "nullptr"]}

\* the calls of set_required made in this model
RequiredCalls ==
    {[T |-> "int", vf |-> "nullptr", dominant |-> FALSE]}

\* the calls of set_optional made in this model
OptionalCalls ==
    {[T |-> "int", defaultValue |-> IntVal(0), vf |-> "nullptr", dominant |-> FALSE],
     [T |-> "int", defaultValue |-> IntVal(0), vf |-> "equals5", dominant |-> FALSE],
     [T |-> "int", defaultValue |-> IntVal(0), vf |-> "throws", dominant |-> FALSE],
     [T |-> "int", defaultValue |-> IntVal(0), vf |-> "equals5", dominant |-> TRUE],
     [T |-> "bool", defaultValue |-> BoolVal(FALSE), vf |-> "nullptr", dominant |-> FALSE],
     [T |-> "vector<int>", defaultValue |-> VecVal("vector<int>", <<>>),
      vf |-> "nullptr", dominant |-> FALSE],
     [T |-> "vector<string>", defaultValue |-> VecVal("vector<string>", <<>>),
      vf |-> "nullptr", dominant |-> FALSE]}

\* the calls of set_callback made in this model
CallbackCalls ==
    {[callback |-> "returns_false", dominant |-> FALSE],
     [callback |-> "throws", dominant |-> FALSE],
     [callback |-> "throws", dominant |-> TRUE],
     [callback |-> "throws_int", dominant |-> FALSE]}

RemoveAt(seq, j) == SubSeq(seq, 1, j - 1) \o SubSeq(seq, j + 1, Len(seq))

\* void disable_help(): erase(command) invalidates the iterator `command`,
\* and delete *command then reads through it.  What the read gives is the slot
\* the help descriptor's pointer was erased from: it holds the pointer of the
\* descriptor that followed, or, with the help descriptor last, still the
\* stale pointer of the help descriptor; a checked iterator stops the process.
disable_help ==
    /\ pc = "setup"
    /\ LET j == FirstIndex({m \in 1..Len(_commands) : IsHelp(_commands[m])})
           erased == RemoveAt(_commands, j)
           deleted == IF j <= Len(erased) THEN erased[j].id ELSE _commands[j].id
       IN  IF j = 0
           THEN UNCHANGED <<_commands, freed, pc>>
           ELSE /\ _commands' = erased
                /\ \/ /\ freed' = freed \cup {deleted}
                      /\ pc' = pc
                   \/ /\ freed' = freed
                      /\ pc' = "crashed"
    /\ UNCHANGED <<_arguments, inited, allocs, runVars>>

-----------------------------------------------------------------------------
(* run(std::ostream& output, std::ostream& error) *)

RunPhases == {"tokenize", "dominant", "required", "normal"}

\* the loops of run() with the normal pass moved before the required check
RECURSIVE After_NormalFirst(_, _)
After_NormalFirst(phase, kk) ==
    IF phase = "done" \/ kk <= Len(_commands) THEN [pc |-> phase, k |-> kk]
    ELSE After_NormalFirst(CASE phase = "dominant" -> "normal"
                             [] phase = "normal" -> "required"
                             [] OTHER -> "done", 1)

\* where run() stands once the loop of `phase` reaches index kk: in that loop,
\* or past its end in the first later loop that has an element, or at return true
RECURSIVE After(_, _)
After(phase, kk) ==
    IF phase = "done" \/ kk <= Len(_commands) THEN [pc |-> phase, k |-> kk]
    ELSE After(CASE phase = "dominant" -> "required"
                 [] phase = "required" -> "normal"
                 [] OTHER -> "done", 1)

\* go on with the resolution loops at (phase, kk); past the last loop, return true
Continue(phase, kk) ==
    /\ pc' = After(phase, kk).pc
    /\ k' = After(phase, kk).k
    /\ result' = IF After(phase, kk).pc = "done" THEN "true" ELSE result

\* return false
ReturnFalse ==
    /\ pc' = "done"
    /\ result' = "false"
    /\ k' = k

\* an exception leaves run()
Propagate ==
    /\ pc' = "done"
    /\ result' = "exception"
    /\ k' = k

\* the call of run(): current = find_default() when there are arguments
run ==
    /\ pc = "setup"
    /\ IF Len(_arguments) > 0
       THEN /\ pc' = "tokenize"
            /\ current' = find_default(_commands)
            /\ UNCHANGED <<k, result>>
       ELSE /\ Continue("dominant", 1)
            /\ UNCHANGED current
    /\ UNCHANGED <<_arguments, _commands, inited, allocs, freed, i, output, error, calls>>

currArg == _arguments[i]
isarg == Len(currArg) > 0 /\ currArg[1] = "-"
associated == IF isarg THEN find(_commands, currArg) ELSE 0

\* ++i of the token loop; after the last token the resolution loops start
NextToken ==
    /\ i' = i + 1
    /\ IF i < Len(_arguments)
       THEN UNCHANGED <<pc, k, result>>
       ELSE Continue("dominant", 1)

\* lines 597-601: the token is a registered flag
run_flag ==
    /\ pc = "tokenize"
    /\ associated # 0
    /\ current' = associated
    /\ _commands' = [_commands EXCEPT ![associated].handled = TRUE]
    /\ NextToken
    /\ UNCHANGED <<_arguments, inited, allocs, freed, output, error, calls>>

\* run_no_cursor with the token skipped: no report, no return
run_no_cursor_skips ==
    /\ pc = "tokenize"
    /\ associated = 0
    /\ current = 0
    /\ NextToken
    /\ UNCHANGED <<_arguments, _commands, inited, allocs, freed, current, output, error, calls>>

\* lines 602-607: no flag, and no cursor to route the token to
run_no_cursor ==
    /\ pc = "tokenize"
    /\ associated = 0
    /\ current = 0
    /\ error' = error \o invalid_parameter(_commands, currArg)
    /\ ReturnFalse
    /\ UNCHANGED <<_arguments, _commands, inited, allocs, freed, i, current, output, calls>>

\* run_store without line 635: the cursor stays on the descriptor
run_store_keeps_cursor ==
    /\ pc = "tokenize"
    /\ associated = 0
    /\ current # 0
    /\ ~_commands[current].variadic
    /\ _commands[current].arguments = <<>>
    /\ find_default(_commands) # 0
    /\ current' = current
    /\ _commands' = [_commands EXCEPT ![current].arguments = <<currArg>>,
                                      ![current].handled = TRUE]
    /\ NextToken
    /\ UNCHANGED <<_arguments, inited, allocs, freed, output, error, calls>>

\* run_store without the test of line 612: the token is pushed onto the bucket
\* whatever it holds
run_store_unguarded ==
    /\ pc = "tokenize"
    /\ associated = 0
    /\ current # 0
    /\ ~_commands[current].variadic
    /\ find_default(_commands) # 0
    /\ current' = find_default(_commands)
    /\ _commands' = [_commands EXCEPT ![current].arguments = Append(@, currArg),
                                      ![find_default(_commands)].handled = TRUE]
    /\ NextToken
    /\ UNCHANGED <<_arguments, inited, allocs, freed, output, error, calls>>

\* lines 610-613, 635, 640: a non-variadic cursor with an empty bucket takes the
\* token, the cursor goes back to find_default(), and handled is set on the
\* descriptor the cursor is on then
run_store ==
    /\ pc = "tokenize"
    /\ associated = 0
    /\ current # 0
    /\ ~_commands[current].variadic
    /\ _commands[current].arguments = <<>>
    /\ find_default(_commands) # 0
    /\ current' = find_default(_commands)
    /\ _commands' = [_commands EXCEPT ![current].arguments = <<currArg>>,
                                      ![find_default(_commands)].handled = TRUE]
    /\ NextToken
    /\ UNCHANGED <<_arguments, inited, allocs, freed, output, error, calls>>

\* the same with no default descriptor registered: current is nullptr at
\* current->handled = true.  The store through the null pointer stops the
\* process, or it lands outside every descriptor and run() goes on.
run_store_null ==
    /\ pc = "tokenize"
    /\ associated = 0
    /\ current # 0
    /\ ~_commands[current].variadic
    /\ _commands[current].arguments = <<>>
    /\ find_default(_commands) = 0
    /\ current' = 0
    /\ _commands' = [_commands EXCEPT ![current].arguments = <<currArg>>]
    /\ \/ /\ pc' = "crashed"
          /\ result' = "crash"
          /\ UNCHANGED <<i, k>>
       \/ NextToken
    /\ UNCHANGED <<_arguments, inited, allocs, freed, output, error, calls>>

\* run_invalid without the isarg test: the token is reported as one too many
run_invalid_as_too_many ==
    /\ pc = "tokenize"
    /\ associated = 0
    /\ current # 0
    /\ ~_commands[current].variadic
    /\ _commands[current].arguments # <<>>
    /\ isarg
    /\ error' = error
                \o <<Msg("Command can have only one parameter.", _commands[current].name),
                     Msg("Given parameter is invalid in this context!", currArg)>>
    /\ ReturnFalse
    /\ UNCHANGED <<_arguments, _commands, inited, allocs, freed, i, current, output, calls>>

\* lines 614-618: a flag-shaped token for a non-variadic cursor whose bucket is full
run_invalid ==
    /\ pc = "tokenize"
    /\ associated = 0
    /\ current # 0
    /\ ~_commands[current].variadic
    /\ _commands[current].arguments # <<>>
    /\ isarg
    /\ error' = error \o invalid_parameter(_commands, currArg)
    /\ ReturnFalse
    /\ UNCHANGED <<_arguments, _commands, inited, allocs, freed, i, current, output, calls>>

\* lines 619-630: a second value for a non-variadic cursor
run_too_many ==
    /\ pc = "tokenize"
    /\ associated = 0
    /\ current # 0
    /\ ~_commands[current].variadic
    /\ _commands[current].arguments # <<>>
    /\ ~isarg
    /\ error' = error
                \o <<IF is_default(_commands[current])
                     THEN Msg("'Default' command can have only one parameter.", <<>>)
                     ELSE Msg("Command can have only one parameter.",
                              _commands[current].name),
                     Msg("Given parameter is invalid in this context!", currArg)>>
    /\ output' = output \o print_help(_commands)
    /\ ReturnFalse
    /\ UNCHANGED <<_arguments, _commands, inited, allocs, freed, i, current, calls>>

\* run_append with the token put in front of the bucket
run_append_front ==
    /\ pc = "tokenize"
    /\ associated = 0
    /\ current # 0
    /\ _commands[current].variadic
    /\ _commands' = [_commands EXCEPT
                        ![current].arguments = <<currArg>> \o @,
                        ![current].handled = TRUE]
    /\ NextToken
    /\ UNCHANGED <<_arguments, inited, allocs, freed, current, output, error, calls>>

\* lines 637-640: a variadic cursor takes every token
run_append ==
    /\ pc = "tokenize"
    /\ associated = 0
    /\ current # 0
    /\ _commands[current].variadic
    /\ _commands' = [_commands EXCEPT
                        ![current].arguments = Append(@, currArg),
                        ![current].handled = TRUE]
    /\ NextToken
    /\ UNCHANGED <<_arguments, inited, allocs, freed, current, output, error, calls>>

Call(op, cmd) == [op |-> op, id |-> cmd.id, pass |-> pc]

\* "ERROR: The parameter '...' has invalid arguments. Usage:" and command->usage()
InvalidArguments(cmd) ==
    <<Msg("ERROR: The parameter has invalid arguments. Usage:", cmd.name),
      Msg("usage", cmd.name)>>

\* one iteration of the loops of lines 647-655 and 669-677 on a descriptor the
\* loop selects: !command->parse(output, error) || !command->validate(output, error)
ParseAndValidate ==
    \E defval \in ReadBool(_commands[k].value) :
    \E p \in {Command_parse(_commands[k], _commands, defval)} :
    \E v \in {Command_validate(p.cmd)} :
       /\ output' = output \o p.out
       /\ _commands' = [_commands EXCEPT ![k] = p.cmd]
       /\ IF p.thrown
          THEN /\ calls' = Append(calls, Call("parse", _commands[k]))
               /\ error' = error
               /\ Propagate
          ELSE IF ~p.ok
          THEN /\ calls' = Append(calls, Call("parse", _commands[k]))
               /\ error' = error \o p.err \o InvalidArguments(_commands[k])
               /\ ReturnFalse
          ELSE /\ calls' = calls \o <<Call("parse", _commands[k]),
                                      Call("validate", _commands[k])>>
               /\ IF v.thrown
                  THEN /\ error' = error
                       /\ Propagate
                  ELSE IF ~v.ok
                  THEN /\ error' = error \o InvalidArguments(_commands[k])
                       /\ ReturnFalse
                  ELSE /\ error' = error
                       /\ Continue(pc, k + 1)

\* an iteration on a descriptor the loop passes over
PassOver ==
    /\ Continue(pc, k + 1)
    /\ UNCHANGED <<_commands, output, error, calls>>

\* lines 647-655: the dominant pass
run_dominant ==
    /\ pc = "dominant"
    /\ IF _commands[k].handled /\ _commands[k].dominant
       THEN ParseAndValidate
       ELSE PassOver
    /\ UNCHANGED <<_arguments, inited, allocs, freed, i, current>>

\* lines 658-666: the required check
run_required ==
    /\ pc = "required"
    /\ calls' = Append(calls, Call("required", _commands[k]))
    /\ IF _commands[k].required /\ ~_commands[k].handled
       THEN /\ error' = error
                        \o <<Msg("ERROR: The parameter is required. Usage:", _commands[k].name),
                             Msg("usage", _commands[k].name)>>
            /\ ReturnFalse
       ELSE /\ error' = error
            /\ Continue(pc, k + 1)
    /\ UNCHANGED <<_arguments, _commands, inited, allocs, freed, i, current, output>>

\* run_normal without the !command->dominant test
run_normal_all_handled ==
    /\ pc = "normal"
    /\ IF _commands[k].handled
       THEN ParseAndValidate
       ELSE PassOver
    /\ UNCHANGED <<_arguments, inited, allocs, freed, i, current>>

\* lines 669-677: the normal pass
run_normal ==
    /\ pc = "normal"
    /\ IF _commands[k].handled /\ ~_commands[k].dominant
       THEN ParseAndValidate
       ELSE PassOver
    /\ UNCHANGED <<_arguments, inited, allocs, freed, i, current>>

\* the registry holds a pointer to a deleted descriptor
Dangling == \E j \in 1..Len(_commands) : _commands[j].id \in freed

\* run() reads every descriptor of the registry (find, find_default and the
\* loops); reading a deleted one gives what it held before, or stops the process
use_after_free ==
    /\ pc \in RunPhases
    /\ Dangling
    /\ pc' = "crashed"
    /\ result' = "crash"
    /\ UNCHANGED <<_arguments, _commands, inited, allocs, freed, i, current, k,
                   output, error, calls>>

\* ~Parser(): delete _commands[i] for every i; deleting a descriptor a second
\* time stops the process or goes unnoticed
Destroy ==
    /\ pc \in {"setup", "done"}
    /\ freed' = freed \cup {_commands[j].id : j \in 1..Len(_commands)}
    /\ \/ pc' = "destroyed"
       \/ /\ Dangling
          /\ pc' = "crashed"
    /\ UNCHANGED <<_arguments, _commands, inited, allocs, runVars>>

-----------------------------------------------------------------------------

Next ==
    \/ init
    \/ enable_help
    \/ disable_help
    \/ \E c \in DefaultCalls : set_default(c.T, c.is_required, c.defaultValue, c.vf)
    \/ \E c \in RequiredCalls : set_required(c.T, Str_f, Str_flag, c.vf, c.dominant)
    \/ \E c \in OptionalCalls :
          set_optional(c.T, Str_f, Str_flag, c.defaultValue, c.vf, c.dominant)
    \/ \E c \in CallbackCalls : set_callback(Str_f, Str_flag, c.callback, c.dominant)
    \/ run
    \/ run_flag
    \/ run_no_cursor
    \/ run_store
    \/ run_store_null
    \/ run_invalid
    \/ run_too_many
    \/ run_append
    \/ run_dominant
    \/ run_required
    \/ run_normal
    \/ use_after_free
    \/ Destroy

Spec == Init /\ [][Next]_vars


-----------------------------------------------------------------------------
(* The claims.  State functions they share: *)

\* run() has returned, thrown or stopped the process
Ended == result # "none"

\* every pointer of the registry points to a live descriptor
Intact == ~Dangling

\* no descriptor has been deleted: the registry is as the registrations left it
Untouched == freed = {}

\* the descriptor named "f" and the default descriptor (0: none registered)
F == get_index(_commands, Str_f)
D == find_default(_commands)

\* a descriptor of CmdArgument<T> for a T that takes exactly one value
OneValue(cmd) == cmd.class = "CmdArgument" /\ cmd.T \in {"int", "string"}

\* tok is a literal the conversion of cmd's type takes and cmd's hook accepts
ValidLiteral(cmd, tok) ==
    /\ parse_scalar(IF IsVector(cmd.T) THEN ElemType(cmd.T) ELSE cmd.T, <<tok>>).ok
    /\ IsVector(cmd.T) \/
       Command_validate([cmd EXCEPT !.value = parse(cmd.T, <<tok>>, FALSE).val]).ok

\* no descriptor other than the j-th is required
OnlyRequired(j) == \A m \in 1..Len(_commands) : m # j => ~_commands[m].required

\* C1: with a non-variadic one-value parameter f of type X registered (whatever
\* else is registered, with or without a default descriptor), run over [-f, v1],
\* v1 a valid literal of X, returns true and then get<X>("f") = parse(v1).
\* Taken with nothing else required, and with no descriptor ever deleted.
C1_Case ==
    /\ F # 0
    /\ OneValue(_commands[F])
    /\ Len(_arguments) = 2
    /\ _arguments[1] = Dash(Str_f)
    /\ ValidLiteral(_commands[F], _arguments[2])
    /\ OnlyRequired(F)
    /\ Untouched

C1_RunStoresValue ==
    (Ended /\ C1_Case) =>
        /\ result = "true"
        /\ get(_commands, _commands[F].T, Str_f)
             = Returned(parse(_commands[F].T, <<_arguments[2]>>, FALSE).val)

\* C2: a boolean flag f registered with default false: run over [-f] returns
\* true and get<bool>("f") is then true; run over a vector without -f leaves
\* get<bool>("f") false.  Taken with nothing required, and with no descriptor
\* ever deleted.
C2_Case ==
    /\ F # 0
    /\ _commands[F].class = "CmdArgument"
    /\ _commands[F].T = "bool"
    /\ ~_commands[F].required
    /\ OnlyRequired(F)
    /\ Untouched

C2_FlagNegatesDefault ==
    (Ended /\ C2_Case) =>
        /\ _arguments = <<Dash(Str_f)>> =>
              /\ result = "true"
              /\ get(_commands, "bool", Str_f) = Returned(BoolVal(TRUE))
        /\ (\A j \in 1..Len(_arguments) : ~is(_commands[F], _arguments[j])) =>
              get(_commands, "bool", Str_f) = Returned(BoolVal(FALSE))

\* the error stream holds a message of this kind
Reported(kind) == \E m \in 1..Len(error) : error[m].kind = kind

TooManyReported ==
    \/ Reported("Command can have only one parameter.")
    \/ Reported("'Default' command can have only one parameter.")

\* C3 as claimed: with a non-variadic parameter f registered, run over
\* [-f, v1, v2] (v1, v2 not flag-shaped) returns false with a too-many-arguments
\* error; v2 is never accepted.
C3_Case ==
    /\ F # 0
    /\ ~_commands[F].variadic
    /\ Len(_arguments) = 3
    /\ _arguments[1] = Dash(Str_f)
    /\ _arguments[2] \in ValueTokens
    /\ _arguments[3] \in ValueTokens
    /\ Intact

C3_SecondValueRejected ==
    (result \in {"true", "false"} /\ C3_Case) => result = "false"

\* C3 as amended: in run over [-f, v1, v2] the bucket of f never holds v2 (it is
\* empty or [v1]); with a default descriptor registered the cursor has gone back
\* to it, v2 is in the default's bucket and no too-many-arguments error is
\* reported.
C3_SecondValueToDefault ==
    C3_Case =>
        /\ _commands[F].arguments \in {<<>>, <<_arguments[2]>>}
        /\ (Ended /\ D # 0) =>
              /\ _commands[F].arguments = <<_arguments[2]>>
              /\ _commands[D].arguments = <<_arguments[3]>>
              /\ ~TooManyReported

C3_Witness ==
    /\ C3_Case
    /\ D # 0
    /\ result = "true"
    /\ _commands[D].arguments = <<_arguments[3]>>
    /\ _commands[F].arguments = <<_arguments[2]>>

\* C4: a required parameter f none of whose flags occurs in the argument vector
\* makes run return false, for every argument vector and registry.
C4_Case ==
    /\ F # 0
    /\ _commands[F].required
    /\ \A j \in 1..Len(_arguments) : ~is(_commands[F], _arguments[j])
    /\ Untouched

C4_MissingRequiredFails ==
    (Ended /\ C4_Case) => result = "false"

\* the position of a pass in the order the claims give
PassRank(pass) == CASE pass = "dominant" -> 1
                    [] pass = "required" -> 2
                    [] OTHER -> 3

\* the log holds this call on the descriptor of this id
Called(op, pass, id) ==
    \E a \in 1..Len(calls) : calls[a] = [op |-> op, id |-> id, pass |-> pass]

\* the log holds a call made in this pass
PassEntered(pass) == \E a \in 1..Len(calls) : calls[a].pass = pass

\* the descriptor of this heap id
ById(id) == _commands[CHOOSE j \in 1..Len(_commands) : _commands[j].id = id]

\* C5: in every run the parse / validate of every handled dominant descriptor
\* comes before the required check, which comes before the parse / validate of
\* any handled non-dominant descriptor; a handled dominant callback has run when
\* a missing required parameter is reported; and when a dominant parse or
\* validate fails, run returns false with no required check made, no
\* missing-required report and no non-dominant descriptor parsed.
C5_ResolutionOrder ==
    /\ \A a, b \in 1..Len(calls) :
          a < b => PassRank(calls[a].pass) <= PassRank(calls[b].pass)
    /\ \A a \in 1..Len(calls) :
          /\ calls[a].pass = "dominant" =>
                 /\ calls[a].op \in {"parse", "validate"}
                 /\ ById(calls[a].id).dominant
          /\ calls[a].pass = "required" => calls[a].op = "required"
          /\ calls[a].pass = "normal" =>
                 /\ calls[a].op \in {"parse", "validate"}
                 /\ ~ById(calls[a].id).dominant
    /\ (PassEntered("required") \/ Reported("ERROR: The parameter is required. Usage:")) =>
          \A j \in 1..Len(_commands) :
             (_commands[j].handled /\ _commands[j].dominant) =>
                 /\ Called("parse", "dominant", _commands[j].id)
                 /\ Called("validate", "dominant", _commands[j].id)
    /\ PassEntered("normal") =>
          \A j \in 1..Len(_commands) : Called("required", "required", _commands[j].id)
    /\ (pc = "done" /\ result = "false" /\ calls # <<>>
           /\ calls[Len(calls)].pass = "dominant") =>
          /\ ~PassEntered("required")
          /\ ~PassEntered("normal")
          /\ ~Reported("ERROR: The parameter is required. Usage:")
          /\ Reported("ERROR: The parameter has invalid arguments. Usage:")

\* a dominant callback (help) has run and the missing required f is reported
C5_Witness ==
    /\ result = "false"
    /\ Reported("ERROR: The parameter is required. Usage:")
    /\ \E j \in 1..Len(_commands) :
          /\ _commands[j].class = "CmdFunction"
          /\ _commands[j].dominant
          /\ Called("parse", "dominant", _commands[j].id)
    /\ F # 0
    /\ _commands[F].required
    /\ ~_commands[F].dominant
    /\ ~_commands[F].handled

\* a dominant descriptor failed and run returned false before the required check
C5_WitnessDominantFails ==
    /\ pc = "done"
    /\ result = "false"
    /\ calls # <<>>
    /\ calls[Len(calls)].pass = "dominant"
    /\ \E j \in 1..Len(_commands) : _commands[j].required /\ ~_commands[j].handled

\* the values a vector parameter of type T holds after converting these tokens
Converted(T, toks) ==
    VecVal(T, [j \in 1..Len(toks) |-> parse_scalar(ElemType(T), <<toks[j]>>).val])

\* C6: with a variadic (sequence-typed) parameter f registered, run over
\* [-f, v1, v2, v3], every vi a value token (not the spelling of a flag) that
\* is a valid element literal, returns true and
\* get<vector<X>>("f") is [parse(v1), parse(v2), parse(v3)]: the tokens after
\* the flag are all collected by f, in input order, none lost or routed
\* elsewhere.  Taken with nothing else required and an intact registry.
C6_Case ==
    /\ F # 0
    /\ _commands[F].class = "CmdArgument"
    /\ _commands[F].variadic
    /\ Len(_arguments) = 4
    /\ _arguments[1] = Dash(Str_f)
    /\ \A j \in 2..4 : /\ _arguments[j] \in ValueTokens
                        /\ ValidLiteral(_commands[F], _arguments[j])
    /\ OnlyRequired(F)
    /\ Intact

C6_VariadicCollectsAll ==
    (Ended /\ C6_Case) =>
        /\ result = "true"
        /\ _commands[F].arguments = SubSeq(_arguments, 2, 4)
        /\ \A j \in 1..Len(_commands) : j # F => _commands[j].arguments = <<>>
        /\ get(_commands, _commands[F].T, Str_f)
             = Returned(Converted(_commands[F].T, SubSeq(_arguments, 2, 4)))

\* three different-looking values were collected and converted in order
C6_Witness ==
    /\ C6_Case
    /\ result = "true"
    /\ _arguments = <<Dash(Str_f), Str_5, Str_x, Str_x>>
    /\ _commands[F].value.v = <<StrVal(Str_5), StrVal(Str_x), StrVal(Str_x)>>

\* C7: once a non-variadic flagged descriptor has accepted one value the cursor
\* is back on the default descriptor and the bare tokens that follow go to the
\* default: with a non-variadic f and a variadic default, run over
\* [-f, v, p1, p2] leaves [v] in f's bucket and [p1, p2], in that order, in the
\* default's, and succeeds when v is valid for f.
C7_Case ==
    /\ F # 0
    /\ ~_commands[F].variadic
    /\ D # 0
    /\ _commands[D].variadic
    /\ Len(_arguments) = 4
    /\ _arguments[1] = Dash(Str_f)
    /\ \A j \in 2..4 : _arguments[j] \in ValueTokens
    /\ Intact

C7_CursorReverts ==
    C7_Case =>
        /\ (pc = "tokenize" /\ i > 2) =>
              /\ current = D
              /\ _commands[F].arguments = <<_arguments[2]>>
        /\ Ended =>
              /\ _commands[F].arguments = <<_arguments[2]>>
              /\ _commands[D].arguments = <<_arguments[3], _arguments[4]>>
              /\ (OneValue(_commands[F]) /\ ValidLiteral(_commands[F], _arguments[2])
                    /\ OnlyRequired(F)) =>
                    /\ result = "true"
                    /\ _commands[D].value.v
                         = <<StrVal(_arguments[3]), StrVal(_arguments[4])>>

C7_Witness ==
    /\ C7_Case
    /\ result = "true"
    /\ _arguments = <<Dash(Str_f), Str_5, Str_5, Str_x>>
    /\ _commands[F].value = IntVal(5)
    /\ _commands[D].arguments = <<Str_5, Str_x>>

\* C8: with a default parameter of a one-value type X as the only descriptor,
\* run over [a], a a valid literal of X, returns true and get_default<X>() is
\* parse(a).
C8_Case ==
    /\ Len(_commands) = 1
    /\ D = 1
    /\ OneValue(_commands[D])
    /\ Len(_arguments) = 1
    /\ ValidLiteral(_commands[D], _arguments[1])
    /\ Intact

C8_DefaultOnly ==
    (Ended /\ C8_Case) =>
        /\ result = "true"
        /\ get_default(_commands, _commands[D].T)
             = Returned(parse(_commands[D].T, _arguments, FALSE).val)

C8_Witness ==
    /\ C8_Case
    /\ result = "true"
    /\ _arguments = <<Str_5>>
    /\ get_default(_commands, "int") = Returned(IntVal(5))

\* C9: no error thrown by a user-supplied callback or validation hook leaves run.
C9_NothingPropagates == Untouched => result # "exception"

\* C10: disable_help removes the help descriptor and nothing else: afterwards
\* has_help() is false, there is one descriptor less, and the other descriptors
\* are all there, in their order, and alive.
C10_DisableHelpStep ==
    (Cardinality({j \in 1..Len(_commands) : IsHelp(_commands[j])}) = 1 /\ disable_help) =>
        /\ ~has_help(_commands')
        /\ commands(_commands') = commands(_commands) - 1
        /\ _commands' = RemoveAt(_commands, FirstIndex({m \in 1..Len(_commands) : IsHelp(_commands[m])}))
        /\ \A j \in 1..Len(_commands') : _commands'[j].id \notin freed'

C10_DisableHelpRemovesOnlyHelp == [][C10_DisableHelpStep]_vars

\* the T of the get<T> calls, and the names they ask for
GetTypes == {"int", "bool", "string", "vector<int>", "vector<string>"}
GetNames == {<<>>, Str_f, Str_h, Str_x}

\* the registry positions of the descriptors of that name
Named(name) == {j \in 1..Len(_commands) : _commands[j].name = name}

\* C11: get<T>(name) fails with NotFound when no registered descriptor has the
\* name, fails with TypeMismatch when the first descriptor of the name is not a
\* value parameter of type T (a callback parameter never is), and otherwise
\* returns the current typed value of that descriptor; get_default<T>() is
\* get<T>("").  get is a const member computed from the registry alone, so it
\* modifies nothing.  Taken on a registry whose pointers are all live.
C11_GetContract ==
    Intact =>
      \A T \in GetTypes :
        /\ get_default(_commands, T) = get(_commands, T, <<>>)
        /\ \A name \in GetNames :
             IF Named(name) = {}
             THEN get(_commands, T, name) = Thrown("could not be found")
             ELSE \E j \in Named(name) :
                    /\ \A m \in Named(name) : j <= m
                    /\ IF _commands[j].class = "CmdArgument" /\ _commands[j].T = T
                       THEN get(_commands, T, name) = Returned(_commands[j].value)
                       ELSE get(_commands, T, name) = Thrown("Invalid usage")

\* after a run that stored 5 in f: the value, both mismatches, and not found
C11_Witness ==
    /\ Intact
    /\ result = "true"
    /\ get(_commands, "int", Str_f) = Returned(IntVal(5))
    /\ get(_commands, "string", Str_f) = Thrown("Invalid usage")
    /\ get(_commands, "bool", Str_h) = Thrown("Invalid usage")
    /\ get(_commands, "int", Str_x) = Thrown("could not be found")
    /\ get_default(_commands, "string") = Returned(StrVal(<<>>))

\* the registry positions of the help descriptors
Helps == {j \in 1..Len(_commands) : IsHelp(_commands[j])}

\* one help descriptor, as enable_help registers it
OneHelp(cmds) ==
    /\ has_help(cmds)
    /\ \E j \in 1..Len(cmds) :
          /\ IsHelp(cmds[j])
          /\ \A m \in 1..Len(cmds) : IsHelp(cmds[m]) => m = j
          /\ cmds[j].dominant
          /\ ~cmds[j].required
          /\ cmds[j].class = "CmdFunction"

C12_Step ==
    /\ init => OneHelp(_commands')
    /\ (OneHelp(_commands) /\ ~disable_help /\ ~enable_help) =>
          /\ OneHelp(_commands')
          /\ \A j \in Helps : IsHelp(_commands'[j])

ResolutionFailed == result = "false" /\ i > Len(_arguments)

Explanations ==
    {"ERROR: The parameter has invalid arguments. Usage:",
     "ERROR: The parameter is required. Usage:"}

HelpHint == Msg("For more help use --help or -h.", <<>>)

\* C13: when run fails in the resolution stage (a dominant or normal
\* parse / validate failure, or a missing required parameter) the error stream
\* ends with an explanation and the usage block of the failing descriptor,
\* followed by the help hint when a help descriptor is registered; with none
\* registered there is no hint.
C13_ResolutionFailureReport ==
    (ResolutionFailed /\ Untouched) =>
        /\ \E m \in 1..Len(error) - 1 :
              /\ error[m].kind \in Explanations
              /\ error[m].arg = _commands[k].name
              /\ error[m + 1] = Msg("usage", _commands[k].name)
              /\ m + 1 = Len(error) - (IF has_help(_commands) THEN 1 ELSE 0)
        /\ has_help(_commands) => error[Len(error)] = HelpHint
        /\ ~has_help(_commands) => \A m \in 1..Len(error) : error[m] # HelpHint

\* C14: no step of the token loop uses an absent cursor: a step that routes a
\* token or sets handled leaves the cursor on a registered descriptor, and a
\* step that finds no descriptor for the token ends run with false and a
\* message on the error stream.
C14_Step ==
    (pc = "tokenize" /\ Untouched) =>
        \/ current' \in 1..Len(_commands')
        \/ /\ result' = "false"
           /\ Len(error') > Len(error)
           /\ _commands' = _commands

C14_CursorNeverAbsent == [][C14_Step]_vars

\* the token loop has consumed every token
Tokenized == pc \in {"dominant", "required", "normal", "done"} /\ i > Len(_arguments)

\* a token of the argument vector is a flag of the j-th descriptor
FlagGiven(j) ==
    \E t \in 1..Len(_arguments) :
        /\ _arguments[t] # <<>>
        /\ _arguments[t][1] = "-"
        /\ find(_commands, _arguments[t]) = j

\* C15: after tokenization a descriptor is handled exactly when one of its
\* flags matched a token or a token was routed into its own bucket; so a
\* default descriptor that received no token is not handled, and a required
\* default that received nothing stops run at the required check.
C15_HandledIffRouted ==
    (Tokenized /\ Untouched) =>
        /\ \A j \in 1..Len(_commands) :
              _commands[j].handled <=> (FlagGiven(j) \/ _commands[j].arguments # <<>>)
        /\ (D # 0 /\ _commands[D].required /\ _commands[D].arguments = <<>>) =>
              /\ pc # "normal"
              /\ result # "true"

\* run() has called parse on the j-th descriptor
Parsed(j) == \E a \in 1..Len(calls) : calls[a].op = "parse" /\ calls[a].id = _commands[j].id

\* C16: parse of a callback parameter fails when the callback signals failure
\* (returns false) and when it throws: in both cases that parse is the last
\* call run makes, run returns false, and the error stream holds the usage
\* text of the descriptor; nothing the callback throws leaves run.
C16_CallbackSignal ==
    Untouched =>
      \A j \in 1..Len(_commands) :
        (/\ _commands[j].class = "CmdFunction"
         /\ _commands[j].callback \in {"returns_false", "throws", "throws_int"}
         /\ Parsed(j)) =>
            /\ result = "false"
            /\ calls[Len(calls)].op = "parse"
            /\ calls[Len(calls)].id = _commands[j].id
            /\ error # <<>>
            /\ error[Len(error)] = Msg("usage", _commands[j].name)

\* the token under the cursor is flag-shaped, matches no registered flag, and
\* the cursor is on a non-variadic descriptor
C17_Case ==
    /\ pc = "tokenize"
    /\ Untouched
    /\ isarg
    /\ associated = 0
    /\ current # 0
    /\ ~_commands[current].variadic

\* run fails on the token with UnrecognizedParameter and stores nothing
Unrecognized ==
    /\ result' = "false"
    /\ error' = error \o invalid_parameter(_commands, currArg)
    /\ _commands' = _commands

\* C17 as claimed: an unregistered flag-shaped token that meets a non-variadic
\* cursor makes run fail with UnrecognizedParameter for that token and is not
\* stored, whether the bucket of the cursor is empty or filled.
C17_StepAsClaimed == C17_Case => Unrecognized

C17_FlagShapedRejected == [][C17_StepAsClaimed]_vars

\* C17 as amended: such a token makes run fail with UnrecognizedParameter, and
\* is not stored, when the bucket of the cursor is already filled; when the
\* bucket is empty the token is stored in it as the value of the descriptor
\* and run does not fail on it.
C17_Step ==
    C17_Case =>
        IF _commands[current].arguments # <<>>
        THEN Unrecognized
        ELSE /\ _commands'[current].arguments = <<currArg>>
             /\ result' # "false"
             /\ error' = error

C17_FlagShapedRejectedWhenFilled == [][C17_Step]_vars

\* "-f" with no f registered, twice: the first is the value of the default
\* descriptor, the second is rejected
C17_Witness ==
    /\ Untouched
    /\ F = 0
    /\ D # 0
    /\ ~_commands[D].variadic
    /\ _arguments = <<Dash(Str_f), Dash(Str_f)>>
    /\ _commands[D].arguments = <<Dash(Str_f)>>
    /\ result = "false"
    /\ error = invalid_parameter(_commands, Dash(Str_f))

\* C18: a token that resolves to no descriptor while no cursor is active (no
\* default descriptor, no flag matched so far) makes run fail at once: the
\* token is reported as invalid, run returns false, no further token is
\* consumed, and no descriptor is parsed or validated or changed, then or later.
C18_Step ==
    /\ (pc = "tokenize" /\ Untouched /\ associated = 0 /\ current = 0) =>
          /\ pc' = "done"
          /\ result' = "false"
          /\ error' = error \o invalid_parameter(_commands, currArg)
          /\ i' = i
          /\ calls' = calls
          /\ _commands' = _commands
    /\ pc = "done" =>
          /\ i' = i
          /\ calls' = calls
          /\ _commands' = _commands
          /\ result' = result

C18_NoCursorFailsAtOnce == [][C18_Step]_vars

\* the first of three tokens was rejected, with a required f never looked at
C18_Witness ==
    /\ Untouched
    /\ pc = "done"
    /\ result = "false"
    /\ D = 0
    /\ current = 0
    /\ i = 1
    /\ Len(_arguments) = 3
    /\ error = invalid_parameter(_commands, _arguments[1])
    /\ calls = <<>>
    /\ F # 0
    /\ _commands[F].required
    /\ \A j \in 1..Len(_commands) : ~_commands[j].handled /\ _commands[j].arguments = <<>>

\* the descriptor of the same heap id before and after a step
Same(j, m) == _commands'[m].id = _commands[j].id

\* C19: the typed value of a descriptor that is neither handled nor required is
\* the default value it was registered with, and no step of run changes it,
\* whether run succeeds or fails; and parse of a handled, non-required value
\* parameter with an empty bucket succeeds with no conversion attempted: the
\* value is kept, nothing is reported, and validate follows.
C19_Step ==
    /\ \A c \in OptionalCalls :
          set_optional(c.T, Str_f, Str_flag, c.defaultValue, c.vf, c.dominant) =>
              _commands'[Len(_commands')].value = c.defaultValue
    /\ \A c \in DefaultCalls :
          set_default(c.T, c.is_required, c.defaultValue, c.vf) =>
              _commands'[Len(_commands')].value = c.defaultValue
    /\ Untouched =>
          \A j \in 1..Len(_commands) : \A m \in 1..Len(_commands') :
             (Same(j, m) /\ ~_commands'[m].handled /\ ~_commands'[m].required) =>
                 _commands'[m].value = _commands[j].value
    /\ (/\ Untouched
        /\ pc \in {"dominant", "normal"}
        /\ _commands[k].handled
        /\ _commands[k].dominant <=> pc = "dominant"
        /\ _commands[k].class = "CmdArgument"
        /\ ~_commands[k].required
        /\ _commands[k].arguments = <<>>
        /\ calls' # calls) =>
           /\ _commands'[k].value = _commands[k].value
           /\ calls' = calls \o <<Call("parse", _commands[k]), Call("validate", _commands[k])>>
           /\ \A m \in 1..Len(error') :
                 error'[m].kind # "ERROR: Parsing command arguments:"

C19_DefaultsKept == [][C19_Step]_vars

\* run over [-f]: the optional int f, handled with an empty bucket, was parsed
\* and is at its default 0; the optional default was not handled and is at its
\* default ""
C19_Witness ==
    /\ Untouched
    /\ result = "true"
    /\ _arguments = <<Dash(Str_f)>>
    /\ F # 0
    /\ _commands[F].T = "int"
    /\ ~_commands[F].required
    /\ _commands[F].handled
    /\ Parsed(F)
    /\ _commands[F].value = IntVal(0)
    /\ D # 0
    /\ _commands[D].T = "string"
    /\ ~_commands[D].handled
    /\ _commands[D].value = StrVal(<<>>)

ParseFailureReported ==
    \/ Reported("ERROR: Parsing command arguments:")
    \/ Reported("ERROR: Failed parsing function's arguments:")

\* C20: in a run, validate is called on a descriptor only right after parse of
\* the same descriptor succeeded in the same pass; a parse that fails is the
\* last call of the run, with no validate after it; and no descriptor is parsed
\* twice (the dominant and the normal pass never parse the same one).
C20_ValidateAfterParse ==
    /\ \A a \in 1..Len(calls) :
          /\ calls[a].op = "validate" =>
                /\ a > 1
                /\ calls[a - 1] = [calls[a] EXCEPT !.op = "parse"]
          /\ calls[a].op = "parse" =>
                IF a < Len(calls)
                THEN calls[a + 1] = [calls[a] EXCEPT !.op = "validate"]
                ELSE /\ result \in {"false", "exception"}
                     /\ result = "false" => ParseFailureReported
    /\ ParseFailureReported =>
          /\ calls[Len(calls)].op = "parse"
          /\ result = "false"
    /\ \A a, b \in 1..Len(calls) :
          (a # b /\ calls[a].op = "parse" /\ calls[b].op = "parse") =>
              calls[a].id # calls[b].id

\* the dominant help was parsed and validated, then parse of f failed on "x"
\* in the normal pass and nothing was validated after it
C20_Witness ==
    /\ Untouched
    /\ result = "false"
    /\ _arguments = <<DashDash(Str_help), Dash(Str_f), Str_x>>
    /\ Len(calls) > 3
    /\ calls[1].op = "parse" /\ calls[1].pass = "dominant"
    /\ calls[2].op = "validate" /\ calls[2].pass = "dominant"
    /\ calls[Len(calls)].op = "parse"
    /\ calls[Len(calls)].pass = "normal"
    /\ F # 0
    /\ calls[Len(calls)].id = _commands[F].id
    /\ Reported("ERROR: Parsing command arguments:")

\* C21: in a single run on a freshly registered parser, in every reachable
\* state the bucket of every non-variadic descriptor holds at most one token,
\* and every descriptor whose bucket is not empty is handled.
C21_BucketInvariant ==
    Untouched =>
      \A j \in 1..Len(_commands) :
        /\ ~_commands[j].variadic => Len(_commands[j].arguments) <= 1
        /\ _commands[j].arguments # <<>> => _commands[j].handled

\* the non-variadic default took "x", then a second value was offered and
\* refused: its bucket still holds the one token
C21_Witness ==
    /\ Untouched
    /\ D # 0
    /\ ~_commands[D].variadic
    /\ _arguments = <<Str_x, Str_5, Str_x>>
    /\ _commands[D].arguments = <<Str_x>>
    /\ _commands[D].handled
    /\ result = "false"
    /\ TooManyReported

====
